---------------------------- MODULE Spec2Model ----------------------------
(***************************************************************************)
(* The arithmetic core of the decimal calculator: the register format, the *)
(* digit primitives, the scratch-register operations, the input parser and *)
(* add_sub / mult / div, each translated from its C++ source.              *)
(*                                                                         *)
(* Registers hold their digits as characters ('0'..'9'), as the source     *)
(* does; a character is modelled by its code.  An array is a sequence,     *)
(* read and written through At and Put with the source's 0-based indices:  *)
(* a mantissa has MAX_MANT elements, a scratch register MAX_SCRATCH, an    *)
(* input buffer 17, the last one being the terminating NUL.                *)
(***************************************************************************)
EXTENDS Integers, Sequences, FiniteSets, TLC

\* ------------------------------------------------------------------------
\* Program constants
\* ------------------------------------------------------------------------
MAX_MANT == 14
MAX_SCRATCH == MAX_MANT + 2

\* Character codes of the literals the source compares with and stores.
CH_NUL == 0
CH_SPACE == 32
CH_PLUS == 43
CH_MINUS == 45
CH_DOT == 46
CH_0 == 48
CH_9 == 57
CH_E == 69
CH_X == 88

\* The exponent bias: TReg() sets exps(128).
EXP_BIAS == 128

\* ------------------------------------------------------------------------
\* C integer conversions
\* ------------------------------------------------------------------------
\* Conversion to (signed) char / int8_t.
ToChar(v) == ((v + 128) % 256) - 128

\* Conversion to uint8_t.
ToUint8(v) == v % 256

\* v & 0xF (two's complement; TLA+'s % is non-negative).
And0F(v) == v % 16

\* isdigit(c)
isdigit(c) == c >= CH_0 /\ c <= CH_9

\* a[i] and a[i] = v for a C array a (0-based).
At(a, i) == a[i + 1]
Put(a, i, v) == [a EXCEPT ![i + 1] = v]

\* memset: n copies of the character c.
RECURSIVE Fill(_, _)
Fill(n, c) == IF n = 0 THEN <<>> ELSE Append(Fill(n - 1, c), c)

\* ------------------------------------------------------------------------
\* Registers
\* ------------------------------------------------------------------------
\* TReg(): sign(false), exps(128), mant filled with '0'.
TReg == [mant |-> Fill(MAX_MANT, CH_0), sign |-> FALSE, exps |-> EXP_BIAS]

\* TAsr(): a scratch register filled with the poison 'X'.
TAsr == Fill(MAX_SCRATCH, CH_X)

\* TAsr(TREG &r) with the extra nibbles left as constructed.
TAsrFromReg_poison(r) == SubSeq(r.mant, 1, MAX_MANT) \o Fill(MAX_SCRATCH - MAX_MANT, CH_X)

\* TAsr(TREG &r): the mantissa of r, the extra nibbles cleared.
TAsrFromReg(r) == SubSeq(r.mant, 1, MAX_MANT) \o Fill(MAX_SCRATCH - MAX_MANT, CH_0)

\* memcpy(result.mant, scratch.mant, MAX_MANT)
CopyMant(result, scratch) == [result EXCEPT !.mant = SubSeq(scratch, 1, MAX_MANT)]

\* ------------------------------------------------------------------------
\* Digit primitives (Common.cpp)
\* ------------------------------------------------------------------------
\* Single digit BCD adder with carry: the digit and the carry out.
bcd_adc(bcd1, bcd2, carry) ==
    LET sum == ToChar(bcd1 + bcd2 + (IF carry THEN 1 ELSE 0))
        c == sum > 9
    IN  [val |-> IF c THEN ToChar(And0F(sum + 6)) ELSE sum, carry |-> c]

\* Single digit BCD subtract with borrow: the digit and the borrow out.
bcd_sbc(bcd1, bcd2, borrow) ==
    LET sub == bcd1 - bcd2 - (IF borrow THEN 1 ELSE 0)
        b == sub < 0
    IN  [val |-> IF b THEN ToChar(And0F(sub + 10)) ELSE ToChar(sub), borrow |-> b]

\* The shift-and-add loop of bcd_mult: four steps over the bits of bcd2.
RECURSIVE bcd_mult_shift_add(_, _, _, _)
bcd_mult_shift_add(bcd1, bcd2, product, i) ==
    IF i >= 4 THEN product
    ELSE bcd_mult_shift_add(ToChar(bcd1 * 2), ToChar(bcd2 \div 2),
                            IF bcd2 % 2 = 1 THEN ToUint8(product + bcd1) ELSE product,
                            i + 1)

\* The double-dabble step without its add-3 adjustment.
dabble_adjust_none(final, shift) == final

\* One add-3 adjustment of the nibble at bit position `shift` (8 or 12) of a
\* 16-bit value: ((final + 3 << shift) & mask) | (final & ~mask).
dabble_adjust(final, shift) ==
    LET unit == 2 ^ shift
        nib == (final \div unit) % 16
    IN  IF nib >= 5 THEN final - nib * unit + ((nib + 3) % 16) * unit ELSE final

\* The double-dabble loop of bcd_mult: eight steps on a uint16_t.
RECURSIVE bcd_mult_dabble(_, _)
bcd_mult_dabble(final, i) ==
    IF i >= 8 THEN final
    ELSE bcd_mult_dabble((dabble_adjust(dabble_adjust(final, 8), 12) * 2) % 65536, i + 1)

\* Single digit BCD multiply: the packed two-nibble result, char(final >> 8).
bcd_mult(bcd1, bcd2) ==
    ToChar(bcd_mult_dabble(bcd_mult_shift_add(bcd1, bcd2, 0, 0), 0) \div 256)

\* Add two exponents (no overflow handling): the low 8 bits.
exp_add(x, y) == ToUint8((x.exps - 128) + (y.exps - 128) + 128)

\* exp_sub with the bias left out: the difference of the stored exponents.
exp_sub_unbiased(x, y) == ToUint8(x.exps - y.exps)

\* Subtract two exponents (no underflow handling): the low 8 bits.
exp_sub(x, y) == ToUint8((x.exps - 128) - (y.exps - 128) + 128)

\* ------------------------------------------------------------------------
\* Scratch-register operations (Common.cpp)
\* ------------------------------------------------------------------------
RECURSIVE scratch_ge_from(_, _, _)
scratch_ge_from(scratch1, scratch2, i) ==
    IF i >= MAX_SCRATCH THEN TRUE
    ELSE IF At(scratch1, i) > At(scratch2, i) THEN TRUE
    ELSE IF At(scratch1, i) < At(scratch2, i) THEN FALSE
    ELSE scratch_ge_from(scratch1, scratch2, i + 1)

\* TRUE if scratch buffer 1 >= buffer 2 (digit by digit from index 0).
scratch_is_greater_or_equal(scratch1, scratch2) == scratch_ge_from(scratch1, scratch2, 0)

\* Swap the contents of two scratch registers (the XOR swap of two distinct
\* objects exchanges them): the pair after the swap.
scratch_swap(scratch1, scratch2) == [s1 |-> scratch2, s2 |-> scratch1]

\* Shift one digit to the right, filling in '0'.
scratch_shr(scratch) == <<CH_0>> \o SubSeq(scratch, 1, MAX_SCRATCH - 1)

\* Shift one digit to the left, filling in '0'.
scratch_shl(scratch) == SubSeq(scratch, 2, MAX_SCRATCH) \o <<CH_0>>

\* TRUE if every digit of the scratch register is '0'.
scratch_is_0(scratch) == \A i \in 0..(MAX_SCRATCH - 1) : At(scratch, i) = CH_0

\* Clear the scratch register.
scratch_clear(scratch) == Fill(MAX_SCRATCH, CH_0)

\* ------------------------------------------------------------------------
\* Addition / subtraction (add_sub)
\* ------------------------------------------------------------------------
\* An operation returns its result register together with what it wrote to
\* the diagnostic channel (diag) and the return statement it left by (path).
Outcome(reg, path, diag) == [reg |-> reg, path |-> path, diag |-> diag]

\* while (shift--) scratch_shr(scratch);
\* The alignment shift left out.
shr_times_none(scratch, shift) == scratch

RECURSIVE shr_times(_, _)
shr_times(scratch, shift) ==
    IF shift = 0 THEN scratch ELSE shr_times(scratch_shr(scratch), shift - 1)

\* The effective operation: TRUE for an addition of the absolute mantissas.
is_addition(x_neg, y_neg, is_sub) ==
    \/ (~is_sub /\ ((~x_neg /\ ~y_neg) \/ (x_neg /\ y_neg)))
    \/ (is_sub /\ ((x_neg /\ ~y_neg) \/ (~x_neg /\ y_neg)))

\* The digit-serial loops keep what they write in a record: the register
\* written (s), the carry or borrow flag (c) and the loop index (k).
LoopState(s, c, k) == [s |-> s, c |-> c, k |-> k]

\* for (k = MAX_MANT - 1; k >= 0; k--) scratch3.mant[k] = bcd_adc(...) + '0';
\* st.s is scratch3, st.c the carry.
RECURSIVE add_digits(_, _, _)
add_digits(scratch1, scratch2, st) ==
    IF st.k < 0 THEN st
    ELSE LET r == bcd_adc(At(scratch1, st.k) - CH_0, At(scratch2, st.k) - CH_0, st.c)
         IN  add_digits(scratch1, scratch2,
                        LoopState(Put(st.s, st.k, r.val + CH_0), r.carry, st.k - 1))

\* for (k = MAX_MANT - 1; k >= 0; k--) scratch3.mant[k] = bcd_sbc(...) + '0';
\* st.s is scratch3, st.c the borrow.
RECURSIVE sub_digits(_, _, _)
sub_digits(scratch1, scratch2, st) ==
    IF st.k < 0 THEN st
    ELSE LET r == bcd_sbc(At(scratch1, st.k) - CH_0, At(scratch2, st.k) - CH_0, st.c)
         IN  sub_digits(scratch1, scratch2,
                        LoopState(Put(st.s, st.k, r.val + CH_0), r.borrow, st.k - 1))

\* add_sub's normalization loop left out.
add_sub_normalize_none(scratch3, exps) == [s3 |-> scratch3, exps |-> exps]

\* while (scratch3.mant[0] == '0') { scratch_shl(scratch3); result.exps--; }
RECURSIVE add_sub_normalize(_, _)
add_sub_normalize(scratch3, exps) ==
    IF At(scratch3, 0) = CH_0
    THEN add_sub_normalize(scratch_shl(scratch3), ToUint8(exps - 1))
    ELSE [s3 |-> scratch3, exps |-> exps]

\* The ADDITION OPERATION branch; result carries the aligned exponent.
add_sub_addition(x, scratch1, scratch2, scratch3, result) ==
    LET a == add_digits(scratch1, scratch2, LoopState(scratch3, FALSE, MAX_MANT - 1))
        s3 == IF a.c THEN Put(scratch_shr(a.s), 0, CH_0 + 1) ELSE a.s
        exps == IF a.c THEN ToUint8(result.exps + 1) ELSE result.exps
    IN  Outcome(CopyMant([result EXCEPT !.exps = exps, !.sign = x.sign], s3),
                IF a.c THEN "add_carry" ELSE "add", {})

\* The SUBTRACTION OPERATION branch with the sign of the first term kept
\* whether or not the operands were swapped.
add_sub_subtraction_sign_of_x(x, scratch1, scratch2, scratch3, result) ==
    LET x_ge_y == scratch_is_greater_or_equal(scratch1, scratch2)
        sw == IF ~x_ge_y THEN scratch_swap(scratch1, scratch2)
              ELSE [s1 |-> scratch1, s2 |-> scratch2]
        d == sub_digits(sw.s1, sw.s2, LoopState(scratch3, FALSE, MAX_MANT - 1))
        dg == IF d.c THEN {"add_sub: unexpected borrow"} ELSE {}
    IN  IF scratch_is_0(d.s)
        THEN Outcome(CopyMant([result EXCEPT !.exps = 128, !.sign = FALSE], d.s),
                     "sub_zero", dg)
        ELSE LET n == add_sub_normalize(d.s, result.exps)
             IN  Outcome(CopyMant([result EXCEPT !.exps = n.exps, !.sign = x.sign], n.s3),
                         "sub", dg)

\* The SUBTRACTION OPERATION branch without the swap of the operands.
add_sub_subtraction_no_swap(x, scratch1, scratch2, scratch3, result) ==
    LET x_ge_y == scratch_is_greater_or_equal(scratch1, scratch2)
        d == sub_digits(scratch1, scratch2, LoopState(scratch3, FALSE, MAX_MANT - 1))
        dg == IF d.c THEN {"add_sub: unexpected borrow"} ELSE {}
        sign == (x.sign # (~x_ge_y))
    IN  IF scratch_is_0(d.s)
        THEN Outcome(CopyMant([result EXCEPT !.exps = 128, !.sign = FALSE], d.s),
                     "sub_zero", dg)
        ELSE LET n == add_sub_normalize(d.s, result.exps)
             IN  Outcome(CopyMant([result EXCEPT !.exps = n.exps, !.sign = sign], n.s3),
                         "sub", dg)

\* The SUBTRACTION OPERATION branch with the sign of a zero difference kept.
add_sub_subtraction_signed_zero(x, scratch1, scratch2, scratch3, result) ==
    LET x_ge_y == scratch_is_greater_or_equal(scratch1, scratch2)
        sw == IF ~x_ge_y THEN scratch_swap(scratch1, scratch2)
              ELSE [s1 |-> scratch1, s2 |-> scratch2]
        d == sub_digits(sw.s1, sw.s2, LoopState(scratch3, FALSE, MAX_MANT - 1))
        dg == IF d.c THEN {"add_sub: unexpected borrow"} ELSE {}
        sign == (x.sign # (~x_ge_y))
    IN  IF scratch_is_0(d.s)
        THEN Outcome(CopyMant([result EXCEPT !.exps = 128, !.sign = sign], d.s),
                     "sub_zero", dg)
        ELSE LET n == add_sub_normalize(d.s, result.exps)
             IN  Outcome(CopyMant([result EXCEPT !.exps = n.exps, !.sign = sign], n.s3),
                         "sub", dg)

\* The SUBTRACTION OPERATION branch; result carries the aligned exponent.
add_sub_subtraction(x, scratch1, scratch2, scratch3, result) ==
    LET x_ge_y == scratch_is_greater_or_equal(scratch1, scratch2)
        sw == IF ~x_ge_y THEN scratch_swap(scratch1, scratch2)
              ELSE [s1 |-> scratch1, s2 |-> scratch2]
        d == sub_digits(sw.s1, sw.s2, LoopState(scratch3, FALSE, MAX_MANT - 1))
        dg == IF d.c THEN {"add_sub: unexpected borrow"} ELSE {}
        sign == (x.sign # (~x_ge_y))
    IN  IF scratch_is_0(d.s)
        THEN Outcome(CopyMant([result EXCEPT !.exps = 128, !.sign = FALSE], d.s),
                     "sub_zero", dg)
        ELSE LET n == add_sub_normalize(d.s, result.exps)
             IN  Outcome(CopyMant([result EXCEPT !.exps = n.exps, !.sign = sign], n.s3),
                         "sub", dg)

\* The part of add_sub after the alignment.
add_sub_effective(x, y, is_sub, scratch1, scratch2, scratch3, result) ==
    IF is_addition(x.sign, y.sign, is_sub)
    THEN add_sub_addition(x, scratch1, scratch2, scratch3, result)
    ELSE add_sub_subtraction(x, scratch1, scratch2, scratch3, result)

\* if (x_is_0) without the ^ is_sub: the y value with its own sign.
add_sub_x_is_0_no_flip(y, is_sub, scratch2, result) ==
    Outcome(CopyMant([result EXCEPT !.sign = y.sign, !.exps = y.exps], scratch2),
            "x_is_0", {})

\* if (x_is_0): return the y value, with the sign y.sign ^ is_sub.
add_sub_x_is_0(y, is_sub, scratch2, result) ==
    Outcome(CopyMant([result EXCEPT !.sign = (y.sign # is_sub), !.exps = y.exps], scratch2),
            "x_is_0", {})

\* TREG add_sub(TREG x, TREG y, bool is_sub)
add_sub(x, y, is_sub) ==
    LET result == TReg
        scratch1 == TAsrFromReg(x)
        scratch2 == TAsrFromReg(y)
        scratch3 == scratch_clear(TAsr)
        x_is_0 == scratch_is_0(scratch1)
        y_is_0 == scratch_is_0(scratch2)
        exp_x == x.exps
        exp_y == y.exps
    IN  IF y_is_0
        THEN IF x_is_0
             THEN Outcome(CopyMant([result EXCEPT !.sign = FALSE, !.exps = 128], scratch1),
                          "y_is_0", {})
             ELSE Outcome(CopyMant([result EXCEPT !.sign = x.sign, !.exps = x.exps], scratch1),
                          "y_is_0", {})
        ELSE IF x_is_0
        THEN add_sub_x_is_0(y, is_sub, scratch2, result)
        ELSE IF exp_x < exp_y
        THEN LET shift == ToUint8(exp_y - exp_x)
             IN  IF shift >= MAX_MANT
                 THEN Outcome(CopyMant([result EXCEPT !.sign = (y.sign # is_sub),
                                                      !.exps = y.exps], scratch2),
                              "return_y", {})
                 ELSE add_sub_effective(x, y, is_sub, shr_times(scratch1, shift), scratch2,
                                        scratch3, [result EXCEPT !.exps = exp_y])
        ELSE IF exp_x >= exp_y
        THEN LET shift == ToUint8(exp_x - exp_y)
             IN  IF shift >= MAX_MANT
                 THEN Outcome(CopyMant([result EXCEPT !.sign = x.sign, !.exps = x.exps],
                                       scratch1), "return_x", {})
                 ELSE add_sub_effective(x, y, is_sub, scratch1, shr_times(scratch2, shift),
                                        scratch3, [result EXCEPT !.exps = exp_x])
        ELSE add_sub_effective(x, y, is_sub, scratch1, scratch2, scratch3,
                               [result EXCEPT !.exps = exp_x])

\* ------------------------------------------------------------------------
\* Multiplication (mult)
\* ------------------------------------------------------------------------
\* for (k = MAX_SCRATCH - 1; k >= 0; k--) scratch3.mant[k] = bcd_adc(...) + '0';
\* st.s is scratch3, st.c the carry.
RECURSIVE mult_accumulate(_, _)
mult_accumulate(scratch4, st) ==
    IF st.k < 0 THEN st
    ELSE LET r == bcd_adc(At(st.s, st.k) - CH_0, At(scratch4, st.k) - CH_0, st.c)
         IN  mult_accumulate(scratch4,
                             LoopState(Put(st.s, st.k, r.val + CH_0), r.carry, st.k - 1))

\* The body of the inner loop: one digit product placed in scratch4.
mult_partial(scratch1, scratch2, scratch4, i, j) ==
    LET product == bcd_mult(At(scratch1, i) - CH_0, At(scratch2, j) - CH_0)
        nibble0 == And0F(product)
        nibble1 == And0F(product \div 16)
    IN  Put(Put(scratch_clear(scratch4), i + 1, nibble0 + CH_0),
            i - 1 + 1, nibble1 + CH_0)

\* ------------------------------------------------------------------------
\* Division (div)
\* ------------------------------------------------------------------------
\* for (k = MAX_SCRATCH - 1; k >= 0; k--) scratch1.mant[k] = bcd_sbc(...) + '0';
\* st.s is scratch1, st.c the borrow.
RECURSIVE div_subtract(_, _)
div_subtract(scratch2, st) ==
    IF st.k < 0 THEN st
    ELSE LET r == bcd_sbc(At(st.s, st.k) - CH_0, At(scratch2, st.k) - CH_0, st.c)
         IN  div_subtract(scratch2,
                          LoopState(Put(st.s, st.k, r.val + CH_0), r.borrow, st.k - 1))

\* ------------------------------------------------------------------------
\* Input parser (input)
\* ------------------------------------------------------------------------
\* e |= 0x80 on the int8_t e (promoted to int).
Or80(e) == IF (e % 256) >= 128 THEN e ELSE e + 128

\* The biased exponent of a buffer with an explicit exponent (in[12] == 'E').
input_exponent(in) ==
    LET e0 == ToChar(At(in, 14) - CH_0)
        e1 == ToChar(At(in, 15) - CH_0)
        e == ToChar(e0 * 10 + e1)
    IN  ToUint8(IF At(in, 13) = CH_MINUS THEN ToChar(128 + (-e)) ELSE ToChar(Or80(e)))

\* The leading zeroes of the mantissa field not skipped.
input_skip_zeroes_none(in, i) == i

\* while ((in[i] == '0') && (i <= MAX_MANT)) i++;
RECURSIVE input_skip_zeroes(_, _)
input_skip_zeroes(in, i) ==
    IF At(in, i) = CH_0 /\ i <= MAX_MANT THEN input_skip_zeroes(in, i + 1) ELSE i

\* while (in[i] == '0') { adjust--; i++; }
RECURSIVE input_count_zeroes(_, _, _)
input_count_zeroes(in, i, adjust) ==
    IF At(in, i) = CH_0 THEN input_count_zeroes(in, i + 1, ToChar(adjust - 1))
    ELSE [i |-> i, adjust |-> adjust]

\* while (isdigit(in[i2]) && (i2 != maxi)) { adjust++; i2++; }
RECURSIVE input_count_digits(_, _, _, _)
input_count_digits(in, i2, maxi, adjust) ==
    IF isdigit(At(in, i2)) /\ i2 # maxi
    THEN input_count_digits(in, i2 + 1, maxi, ToChar(adjust + 1))
    ELSE adjust

\* while ((isdigit(in[i]) || (in[i] == '.')) && (i != maxi) && (j < MAX_MANT)) ...
RECURSIVE input_copy(_, _, _, _, _)
input_copy(in, i, j, maxi, scratch3) ==
    IF (isdigit(At(in, i)) \/ At(in, i) = CH_DOT) /\ i # maxi /\ j < MAX_MANT
    THEN IF At(in, i) # CH_DOT
         THEN input_copy(in, i + 1, j + 1, maxi, Put(scratch3, j, At(in, i)))
         ELSE input_copy(in, i + 1, j, maxi, scratch3)
    ELSE [j |-> j, s3 |-> scratch3]

\* TREG input(const char *in)
input(in) ==
    LET scratch3 == scratch_clear(TAsr)
        explicit == At(in, 12) = CH_E
        maxi == IF explicit THEN 12 ELSE 16
        exps == IF explicit THEN input_exponent(in) ELSE 128
        sign == At(in, 0) = CH_MINUS
        i0 == input_skip_zeroes(in, 1)
        p == IF At(in, i0) = CH_DOT
             THEN input_count_zeroes(in, IF i0 # maxi THEN i0 + 1 ELSE i0, -1)
             ELSE [i |-> i0, adjust |-> input_count_digits(in, i0, maxi, -1)]
        c == input_copy(in, p.i, 0, maxi, scratch3)
    IN  CopyMant([TReg EXCEPT !.sign = sign,
                              !.exps = IF c.j # 0 THEN ToUint8(exps + p.adjust) ELSE 128],
                 c.s3)

\* ------------------------------------------------------------------------
\* Input buffers: 16 characters and the terminating NUL
\* ------------------------------------------------------------------------
\* A mantissa field is written as a sequence of digits 0..9, with 10 for '.'.
FieldChar(d) == IF d = 10 THEN CH_DOT ELSE CH_0 + d

\* The characters of a mantissa field.
RECURSIVE FieldChars(_)
FieldChars(f) == IF f = <<>> THEN <<>> ELSE <<FieldChar(Head(f))>> \o FieldChars(Tail(f))

\* The buffer with mantissa sign character s and mantissa field f, padded
\* with spaces, and no explicit exponent.
Buffer(s, f) == <<s>> \o FieldChars(f) \o Fill(15 - Len(f), CH_SPACE) \o <<CH_NUL>>

\* The buffer with an explicit exponent: 'E' at [12], the exponent sign es
\* at [13] and the two digits of e (00..99) at [14] and [15].
BufferE(s, f, es, e) ==
    <<s>> \o FieldChars(f) \o Fill(11 - Len(f), CH_SPACE)
          \o <<CH_E, es, CH_0 + (e \div 10), CH_0 + (e % 10), CH_NUL>>

\* ------------------------------------------------------------------------
\* The typed operands
\* ------------------------------------------------------------------------
\* The two mantissa sign characters.
Signs == {CH_SPACE, CH_MINUS}

\* n copies of the digit d, as part of a mantissa field.
Digits(n, d) == Fill(n, d)

\* Mantissa fields: 0, 1, 9.9999999999999, 1.0000000000001.
FieldZero == <<0>>
FieldOne == <<1>>
FieldNines == <<9, 10>> \o Digits(13, 9)
FieldOneEps == <<1, 10>> \o Digits(12, 0) \o <<1>>

\* The buffers typed into the chained calculator.
Typed ==
    {Buffer(s, f) : s \in Signs, f \in {FieldZero, FieldOne, FieldNines, FieldOneEps}}
    \cup {BufferE(CH_SPACE, FieldOne, es, 64) : es \in {CH_PLUS, CH_MINUS}}

\* ------------------------------------------------------------------------
\* The calculator: two operand registers and one running operation
\* ------------------------------------------------------------------------
VARIABLES
    x, y,           \* the operands of the operation (TREG x, TREG y)
    typed,          \* the two buffers typed: <<a, b>>
    inx, iny,       \* the registers input() returned for the two typed buffers
    pc,             \* where the running operation is: idle, its loops, done
    scratch1, scratch2, scratch3, scratch4,  \* the operation's scratch registers
    i, j,           \* the operation's loop indices
    result,         \* the operation's result register
    diag,           \* what the operation wrote to the diagnostic channel
    path,           \* the return statement the operation left by
    trail           \* the operations begun and the results stored, in order

vars == <<typed, x, y, inx, iny, pc, scratch1, scratch2, scratch3, scratch4, i, j,
          result, diag, path, trail>>

\* The number of results that may be fed back as operands.
MaxStores == 1

InitWith(bufs) ==
    /\ \E a \in bufs, b \in bufs :
          /\ typed = <<a, b>>
          /\ inx = input(a)
          /\ iny = input(b)
    /\ x = inx
    /\ y = iny
    /\ pc = "idle"
    /\ scratch1 = TAsr /\ scratch2 = TAsr /\ scratch3 = TAsr /\ scratch4 = TAsr
    /\ i = 0 /\ j = 0
    /\ result = TReg
    /\ diag = {}
    /\ path = "none"
    /\ trail = <<>>

Init == InitWith(Typed)

\* return result; the scratch registers and loop indices go out of scope.
Return(reg, p, dg) ==
    /\ result' = reg
    /\ path' = p
    /\ diag' = dg
    /\ pc' = "done"
    /\ scratch1' = TAsr /\ scratch2' = TAsr /\ scratch3' = TAsr /\ scratch4' = TAsr
    /\ i' = 0 /\ j' = 0

\* add_sub(x, y, is_sub), as one step.
AddSub(is_sub) ==
    /\ pc = "idle"
    /\ LET o == add_sub(x, y, is_sub) IN Return(o.reg, o.path, o.diag)
    /\ trail' = Append(trail, IF is_sub THEN "sub" ELSE "add")
    /\ UNCHANGED <<x, y, typed, inx, iny>>

\* mult(x, y) up to its loops: the scratch registers, the sign, the zero
\* shortcut and the exponent.
MultBegin ==
    /\ pc = "idle"
    /\ trail' = Append(trail, "mult")
    /\ LET s1 == TAsrFromReg(x)
           s2 == TAsrFromReg(y)
           r == [TReg EXCEPT !.sign = (x.sign # y.sign)]
       IN  IF scratch_is_0(s1) \/ scratch_is_0(s2)
           THEN Return(r, "zero", {})
           ELSE /\ scratch1' = s1
                /\ scratch2' = s2
                /\ scratch3' = scratch_clear(TAsr)
                /\ scratch4' = TAsr
                /\ result' = [r EXCEPT !.exps = exp_add(x, y)]
                /\ j' = MAX_MANT - 1
                /\ pc' = "mult_outer"
                /\ UNCHANGED <<i, diag, path>>
    /\ UNCHANGED <<x, y, typed, inx, iny>>

\* for (j = MAX_MANT - 1; j >= 0; j--) { scratch_shr(scratch3); for (i = MAX_MANT - 1; ...
MultOuter ==
    /\ pc = "mult_outer"
    /\ j >= 0
    /\ scratch3' = scratch_shr(scratch3)
    /\ i' = MAX_MANT - 1
    /\ pc' = "mult_inner"
    /\ UNCHANGED <<x, y, typed, inx, iny, scratch1, scratch2, scratch4, j, result, diag, path, trail>>

\* The body of the inner loop: scratch3 += x.mant[i] * y.mant[j], and i--.
MultInner ==
    /\ pc = "mult_inner"
    /\ i >= 0
    /\ LET s4 == mult_partial(scratch1, scratch2, scratch4, i, j)
           a == mult_accumulate(s4, LoopState(scratch3, FALSE, MAX_SCRATCH - 1))
       IN  /\ scratch4' = s4
           /\ scratch3' = a.s
           /\ diag' = IF a.c THEN diag \cup {"mult: unexpected carry"} ELSE diag
    /\ i' = i - 1
    /\ UNCHANGED <<x, y, typed, inx, iny, pc, scratch1, scratch2, j, result, path, trail>>

\* The inner loop ends: j--.
MultInnerEnd ==
    /\ pc = "mult_inner"
    /\ i < 0
    /\ j' = j - 1
    /\ pc' = "mult_outer"
    /\ UNCHANGED <<x, y, typed, inx, iny, scratch1, scratch2, scratch3, scratch4, i, result, diag,
                   path, trail>>

\* The end of mult with the exponent left alone when the product has two
\* integer digits.
MultNormalize_no_inc ==
    /\ pc = "mult_outer"
    /\ j < 0
    /\ IF At(scratch3, 0) = CH_0
       THEN Return(CopyMant(result, scratch_shl(scratch3)), "shl", diag)
       ELSE Return(CopyMant(result, scratch3), "inc", diag)
    /\ UNCHANGED <<x, y, typed, inx, iny, trail>>

\* The outer loop ends: normalize, copy the mantissa, return.
MultNormalize ==
    /\ pc = "mult_outer"
    /\ j < 0
    /\ IF At(scratch3, 0) = CH_0
       THEN Return(CopyMant(result, scratch_shl(scratch3)), "shl", diag)
       ELSE Return(CopyMant([result EXCEPT !.exps = ToUint8(result.exps + 1)], scratch3),
                   "inc", diag)
    /\ UNCHANGED <<x, y, typed, inx, iny, trail>>

\* div(x, y) up to its loop with the two zero tests in the other order.
DivBegin_dividend_first ==
    /\ pc = "idle"
    /\ trail' = Append(trail, "div")
    /\ LET s1 == TAsrFromReg(x)
           s2 == TAsrFromReg(y)
           r == [TReg EXCEPT !.sign = (x.sign # y.sign)]
       IN  IF scratch_is_0(s1)
           THEN Return(r, "zero", {})
           ELSE IF scratch_is_0(s2)
           THEN Return([r EXCEPT !.exps = 0], "div0", {"*** DIV0 ***"})
           ELSE /\ scratch1' = scratch_shr(s1)
                /\ scratch2' = scratch_shr(s2)
                /\ scratch3' = scratch_clear(TAsr)
                /\ result' = [r EXCEPT !.exps = exp_sub(x, y)]
                /\ i' = 0
                /\ pc' = "div_loop"
                /\ UNCHANGED <<scratch4, j, diag, path>>
    /\ UNCHANGED <<x, y, typed, inx, iny>>

\* div(x, y) up to its loop without the test of an all-zero divisor.
DivBegin_no_zero_test ==
    /\ pc = "idle"
    /\ trail' = Append(trail, "div")
    /\ LET s1 == TAsrFromReg(x)
           s2 == TAsrFromReg(y)
           r == [TReg EXCEPT !.sign = (x.sign # y.sign)]
       IN  IF scratch_is_0(s1)
           THEN Return(r, "zero", {})
           ELSE /\ scratch1' = scratch_shr(s1)
                /\ scratch2' = scratch_shr(s2)
                /\ scratch3' = scratch_clear(TAsr)
                /\ result' = [r EXCEPT !.exps = exp_sub(x, y)]
                /\ i' = 0
                /\ pc' = "div_loop"
                /\ UNCHANGED <<scratch4, j, diag, path>>
    /\ UNCHANGED <<x, y, typed, inx, iny>>

\* div(x, y) up to its loop without the two right shifts that free the most
\* significant digit.
DivBegin_no_shr ==
    /\ pc = "idle"
    /\ trail' = Append(trail, "div")
    /\ LET s1 == TAsrFromReg(x)
           s2 == TAsrFromReg(y)
           r == [TReg EXCEPT !.sign = (x.sign # y.sign)]
       IN  IF scratch_is_0(s2)
           THEN Return([r EXCEPT !.exps = 0], "div0", {"*** DIV0 ***"})
           ELSE IF scratch_is_0(s1)
           THEN Return(r, "zero", {})
           ELSE /\ scratch1' = s1
                /\ scratch2' = s2
                /\ scratch3' = scratch_clear(TAsr)
                /\ result' = [r EXCEPT !.exps = exp_sub(x, y)]
                /\ i' = 0
                /\ pc' = "div_loop"
                /\ UNCHANGED <<scratch4, j, diag, path>>
    /\ UNCHANGED <<x, y, typed, inx, iny>>

\* div(x, y) up to its loop: the scratch registers, the sign, the two zero
\* tests, the exponent and the two right shifts.
DivBegin ==
    /\ pc = "idle"
    /\ trail' = Append(trail, "div")
    /\ LET s1 == TAsrFromReg(x)
           s2 == TAsrFromReg(y)
           r == [TReg EXCEPT !.sign = (x.sign # y.sign)]
       IN  IF scratch_is_0(s2)
           THEN Return([r EXCEPT !.exps = 0], "div0", {"*** DIV0 ***"})
           ELSE IF scratch_is_0(s1)
           THEN Return(r, "zero", {})
           ELSE /\ scratch1' = scratch_shr(s1)
                /\ scratch2' = scratch_shr(s2)
                /\ scratch3' = scratch_clear(TAsr)
                /\ result' = [r EXCEPT !.exps = exp_sub(x, y)]
                /\ i' = 0
                /\ pc' = "div_loop"
                /\ UNCHANGED <<scratch4, j, diag, path>>
    /\ UNCHANGED <<x, y, typed, inx, iny>>

\* The body of the while loop: scratch1 -= scratch2, scratch3.mant[i]++.
DivSubtract ==
    /\ pc = "div_loop"
    /\ i < MAX_SCRATCH
    /\ scratch_is_greater_or_equal(scratch1, scratch2)
    /\ LET d == div_subtract(scratch2, LoopState(scratch1, FALSE, MAX_SCRATCH - 1))
           dg1 == IF d.c THEN {"div: unexpected borrow"} ELSE {}
           dg2 == IF At(scratch3, i) > CH_9 THEN {"div: unexpected scratch mant digit"}
                  ELSE {}
       IN  /\ scratch1' = d.s
           /\ diag' = diag \cup dg1 \cup dg2
    /\ scratch3' = Put(scratch3, i, ToChar(At(scratch3, i) + 1))
    /\ UNCHANGED <<x, y, typed, inx, iny, pc, scratch2, scratch4, i, j, result, path, trail>>

\* The while loop ends: scratch_shl(scratch1), i++.
DivShift ==
    /\ pc = "div_loop"
    /\ i < MAX_SCRATCH
    /\ ~scratch_is_greater_or_equal(scratch1, scratch2)
    /\ scratch1' = scratch_shl(scratch1)
    /\ i' = i + 1
    /\ UNCHANGED <<x, y, typed, inx, iny, pc, scratch2, scratch3, scratch4, j, result, diag, path,
                   trail>>

\* The end of div with the exponent left alone when the quotient is shifted.
DivNormalize_no_dec ==
    /\ pc = "div_loop"
    /\ i >= MAX_SCRATCH
    /\ IF At(scratch3, 0) = CH_0
       THEN Return(CopyMant(result, scratch_shl(scratch3)), "shl", diag)
       ELSE Return(CopyMant(result, scratch3), "quot", diag)
    /\ UNCHANGED <<x, y, typed, inx, iny, trail>>

\* The for loop ends: normalize, copy the mantissa, return.
DivNormalize ==
    /\ pc = "div_loop"
    /\ i >= MAX_SCRATCH
    /\ IF At(scratch3, 0) = CH_0
       THEN Return(CopyMant([result EXCEPT !.exps = ToUint8(result.exps - 1)],
                            scratch_shl(scratch3)), "shl", diag)
       ELSE Return(CopyMant(result, scratch3), "quot", diag)
    /\ UNCHANGED <<x, y, typed, inx, iny, trail>>

\* The returned value becomes the first operand of the next operation.
StoreXUpTo(n) ==
    /\ pc = "done"
    /\ Len(SelectSeq(trail, LAMBDA t : t \in {"stx", "sty"})) < n
    /\ x' = result
    /\ trail' = Append(trail, "stx")
    /\ pc' = "idle"
    /\ result' = TReg
    /\ diag' = {}
    /\ path' = "none"
    /\ UNCHANGED <<y, typed, inx, iny, scratch1, scratch2, scratch3, scratch4, i, j>>

\* The returned value becomes the second operand of the next operation.
StoreYUpTo(n) ==
    /\ pc = "done"
    /\ Len(SelectSeq(trail, LAMBDA t : t \in {"stx", "sty"})) < n
    /\ y' = result
    /\ trail' = Append(trail, "sty")
    /\ pc' = "idle"
    /\ result' = TReg
    /\ diag' = {}
    /\ path' = "none"
    /\ UNCHANGED <<x, typed, inx, iny, scratch1, scratch2, scratch3, scratch4, i, j>>

StoreX == StoreXUpTo(MaxStores)

StoreY == StoreYUpTo(MaxStores)

\* The steps of the operations.
Step ==
    \/ \E is_sub \in BOOLEAN : AddSub(is_sub)
    \/ MultBegin \/ MultOuter \/ MultInner \/ MultInnerEnd \/ MultNormalize
    \/ DivBegin \/ DivSubtract \/ DivShift \/ DivNormalize

Next == Step \/ StoreX \/ StoreY

Spec == Init /\ [][Next]_vars

\* ------------------------------------------------------------------------
\* The three operations on operands of full-width mantissas, no chaining
\* ------------------------------------------------------------------------
\* Mantissa fields of fourteen significant digits.
FullFields ==
    {<<1, 10, 2, 3, 4, 5, 6, 7, 8, 9, 0, 1, 2, 3, 4>>,
     <<9, 8, 10, 7, 6, 5, 4, 3, 2, 1, 0, 9, 8, 7, 6>>,
     <<3, 1, 6, 2, 2, 7, 10, 7, 6, 6, 0, 1, 6, 8, 3>>,
     <<1, 10, 4, 1, 4, 2, 1, 3, 5, 6, 2, 3, 7, 3, 0>>,
     <<6, 0, 0, 0, 10, 0, 0, 0, 0, 0, 0, 0, 0, 0, 7>>}

\* The buffers typed into the calculator that runs one operation.
ArithBuffers ==
    {Buffer(CH_SPACE, f) : f \in FullFields \cup {FieldOne, <<3>>, FieldNines, FieldOneEps}}
    \cup {Buffer(CH_MINUS, <<7>>), BufferE(CH_SPACE, <<2>>, CH_PLUS, 50),
          BufferE(CH_MINUS, <<5>>, CH_MINUS, 50)}

InitArith == InitWith(ArithBuffers)

SpecArith == InitArith /\ [][Step]_vars

\* ------------------------------------------------------------------------
\* add_sub on operands of many exponents
\* ------------------------------------------------------------------------
\* Mantissas of fourteen digits: 9.9999999999999, 1.0000000000001,
\* 1.0999999999999, 5.0000000000005.
AlignMantissas ==
    {Digits(14, 9), <<1>> \o Digits(12, 0) \o <<1>>, <<1, 0>> \o Digits(12, 9),
     <<5>> \o Digits(12, 0) \o <<5>>}

\* The fourteen digits m with the decimal point after the first p of them.
PointAt(m, p) == IF p >= Len(m) THEN m ELSE SubSeq(m, 1, p) \o <<10>> \o SubSeq(m, p + 1, Len(m))

\* Mantissa fields of exponents -14 .. 14.
AlignFields ==
    {PointAt(m, p) : m \in AlignMantissas, p \in {1, 2, 3, 8, 13, 14}}
    \cup {<<1>> \o Digits(z, 0) : z \in {0, 1, 2, 12, 13, 14}}
    \cup {<<10>> \o Digits(z, 0) \o <<1>> : z \in {0, 1, 12, 13}}
    \cup {<<10>> \o Digits(14, 9)}

\* The buffers typed into the calculator that adds and subtracts.
AddSubBuffers == {Buffer(s, f) : s \in Signs, f \in AlignFields}

InitAddSub == InitWith(AddSubBuffers)

NextAddSub == \E is_sub \in BOOLEAN : AddSub(is_sub)

SpecAddSub == InitAddSub /\ [][NextAddSub]_vars

\* ------------------------------------------------------------------------
\* The calculator on operands near the top of the exponent range
\* ------------------------------------------------------------------------
\* The buffers " 9 E+64" and " 1 E+63".
WrapBuffers ==
    {BufferE(CH_SPACE, <<9>>, CH_PLUS, 64), BufferE(CH_SPACE, <<1>>, CH_PLUS, 63)}

\* The number of results that may be fed back as operands here.
WrapStores == 2

InitWrap == InitWith(WrapBuffers)

NextWrap == Step \/ StoreXUpTo(WrapStores) \/ StoreYUpTo(WrapStores)

SpecWrap == InitWrap /\ [][NextWrap]_vars

\* ------------------------------------------------------------------------
\* Single digit products: mult on operands of one digit
\* ------------------------------------------------------------------------
\* The buffers " 1" .. " 9".
DigitBuffers == {Buffer(CH_SPACE, <<d>>) : d \in 1..9}

InitDigits == InitWith(DigitBuffers)

NextDigits == MultBegin \/ MultOuter \/ MultInner \/ MultInnerEnd \/ MultNormalize

SpecDigits == InitDigits /\ [][NextDigits]_vars

\* ------------------------------------------------------------------------
\* The parser on its own: a buffer is typed, then input() is applied
\* ------------------------------------------------------------------------
\* Mantissa fields of non-zero value that fit beside an explicit exponent.
ShortFields ==
    {<<1>>, <<1, 10>>, <<1, 10, 0>>, <<1, 2, 10, 5>>, <<0, 10, 5>>, <<10, 5>>,
     <<0, 10, 0, 5>>, <<0, 0, 1, 2>>, <<1, 0, 0>>, <<0, 10, 0, 0, 1, 2, 0>>,
     Digits(11, 9), <<10>> \o Digits(9, 0) \o <<1>>}

\* Mantissa fields of non-zero value that fill the buffer.
LongFields ==
    {<<1, 2, 3, 4, 5, 6, 7, 8, 9, 0, 1, 2, 3, 4, 5>>,
     <<1, 10, 2, 3, 4, 5, 6, 7, 8, 9, 0, 1, 2, 3, 4>>,
     <<0, 10, 1, 2, 3, 4, 5, 6, 7, 8, 9, 0, 1, 2, 3>>,
     <<10, 1, 2, 3, 4, 5, 6, 7, 8, 9, 0, 1, 2, 3, 4>>,
     Digits(14, 0) \o <<5>>,
     Digits(13, 0) \o <<10, 5>>,
     <<10>> \o Digits(13, 0) \o <<1>>,
     <<1, 2, 3, 4, 5, 6, 7, 8, 9, 0, 1, 2, 3, 10, 4>>}

\* The well-formed buffers of non-zero mantissa typed into the parser.
InputBuffers ==
    {Buffer(s, f) : s \in Signs, f \in ShortFields \cup LongFields}
    \cup {BufferE(s, f, es, e) : s \in Signs, f \in ShortFields,
                                 es \in {CH_PLUS, CH_MINUS}, e \in {0, 5, 99}}

\* A buffer has been typed and input() has not run yet.
InitInput ==
    /\ \E a \in InputBuffers : typed = <<a, Buffer(CH_SPACE, FieldOne)>>
    /\ inx = TReg /\ iny = TReg
    /\ x = TReg /\ y = TReg
    /\ pc = "typing"
    /\ scratch1 = TAsr /\ scratch2 = TAsr /\ scratch3 = TAsr /\ scratch4 = TAsr
    /\ i = 0 /\ j = 0
    /\ result = TReg
    /\ diag = {}
    /\ path = "none"
    /\ trail = <<>>

\* x = input(a), y = input(b)
Enter ==
    /\ pc = "typing"
    /\ inx' = input(typed[1])
    /\ iny' = input(typed[2])
    /\ x' = inx'
    /\ y' = iny'
    /\ pc' = "idle"
    /\ UNCHANGED <<typed, scratch1, scratch2, scratch3, scratch4, i, j, result, diag, path,
                   trail>>

SpecInput == InitInput /\ [][Enter]_vars

\* ------------------------------------------------------------------------
\* The vocabulary of the properties
\* ------------------------------------------------------------------------
\* Every mantissa digit of the register is '0'.
IsZeroMant(r) == \A k \in 1..MAX_MANT : r.mant[k] = CH_0

\* Canonical zero: sign false, exps 128, every mantissa digit '0'.
CanonicalZero(r) == IsZeroMant(r) /\ r.sign = FALSE /\ r.exps = EXP_BIAS

\* A normalized register: an all-zero mantissa or a non-zero leading digit.
Normalized(r) == IsZeroMant(r) \/ r.mant[1] # CH_0

\* The mantissa 1 followed by MAX_MANT - 1 zeros.
MantOne == <<CH_0 + 1>> \o Fill(MAX_MANT - 1, CH_0)

\* The mantissa of MAX_MANT nines.
MantNines == Fill(MAX_MANT, CH_9)

\* The operation that has returned (pc = "done") or is running.
LastOp == IF trail = <<>> THEN "none" ELSE trail[Len(trail)]

\* An operation has returned.
Returned(ops) == pc = "done" /\ LastOp \in ops

\* The mantissa b is the mantissa a plus one unit in the last digit.
OneApart(a, b) ==
    \E k \in 1..MAX_MANT :
        /\ \A m \in 1..(k - 1) : b[m] = a[m]
        /\ b[k] = a[k] + 1
        /\ \A m \in (k + 1)..MAX_MANT : a[m] = CH_9 /\ b[m] = CH_0

\* The value of r is within one unit in the last mantissa digit of v.
Close(r, v) ==
    /\ r.sign = v.sign
    /\ \/ /\ r.exps = v.exps
          /\ (r.mant = v.mant \/ OneApart(r.mant, v.mant) \/ OneApart(v.mant, r.mant))
       \/ /\ r.exps = v.exps + 1
          /\ v.mant = MantNines
          /\ r.mant = MantOne
       \/ /\ r.exps = v.exps - 1
          /\ v.mant = MantOne
          /\ SubSeq(r.mant, 1, MAX_MANT - 1) = Fill(MAX_MANT - 1, CH_9)

\* The mantissa field of a buffer: the digits and '.' after the sign
\* character, up to the first other character or the end of the field
\* ([12] with an explicit exponent, [16] without).
MantissaField(b) ==
    LET region == SubSeq(b, 2, IF At(b, 12) = CH_E THEN 12 ELSE 16)
        stops == {p \in 1..Len(region) : ~(isdigit(region[p]) \/ region[p] = CH_DOT)}
        n == IF stops = {} THEN Len(region)
             ELSE (CHOOSE p \in stops : \A q \in stops : p <= q) - 1
    IN  SubSeq(region, 1, n)

\* The signed explicit exponent of a buffer, 0 without one.
TypedExponent(b) ==
    IF At(b, 12) = CH_E
    THEN (IF At(b, 13) = CH_MINUS THEN -1 ELSE 1)
         * ((At(b, 14) - CH_0) * 10 + (At(b, 15) - CH_0))
    ELSE 0

\* The register that holds the value typed in b, truncated to MAX_MANT
\* significant digits: the digits from the first non-zero one, the decimal
\* exponent of that digit added to the explicit exponent.
TypedValue(b) ==
    LET f == MantissaField(b)
        points == {p \in 1..Len(f) : f[p] = CH_DOT}
        intdigits == IF points = {} THEN Len(f) ELSE (CHOOSE p \in points : TRUE) - 1
        d == SelectSeq(f, isdigit)
        nonzero == {k \in 1..Len(d) : d[k] # CH_0}
        first == CHOOSE k \in nonzero : \A q \in nonzero : k <= q
    IN  [mant |-> [m \in 1..MAX_MANT |->
                      IF first + m - 1 <= Len(d) THEN d[first + m - 1] ELSE CH_0],
         sign |-> (At(b, 0) = CH_MINUS),
         exps |-> EXP_BIAS + TypedExponent(b) + (intdigits - first)]

\* Well-formed buffers whose mantissa field is entirely zero.
ZeroFields == {<<0>>, <<0, 10>>, <<0, 10, 0>>, <<10, 0>>, <<0, 0>>}

ZeroBuffers ==
    {Buffer(s, f) : s \in Signs, f \in ZeroFields}
    \cup {BufferE(s, f, es, 64) : s \in Signs, f \in ZeroFields, es \in {CH_PLUS, CH_MINUS}}

\* ------------------------------------------------------------------------
\* The properties
\* ------------------------------------------------------------------------
\* C1: a returned value has exps = 0 only when it is returned by div with an
\* all-zero divisor mantissa; add_sub, mult and div by a non-zero divisor
\* never return exps = 0.
C1_ExpsZeroOnlyFromDivByZero ==
    (pc = "done" /\ result.exps = 0) => (LastOp = "div" /\ IsZeroMant(y))

\* C2: mult returns canonical zero whenever the mantissa of x or of y is all
\* zero, whatever the signs and exponents of the operands.
C2_MultByZeroIsCanonicalZero ==
    (Returned({"mult"}) /\ (IsZeroMant(x) \/ IsZeroMant(y))) => CanonicalZero(result)

\* C3: div with an all-zero dividend mantissa and a non-zero divisor returns
\* canonical zero, whatever the signs and exponents of the operands.
C3_ZeroDividendIsCanonicalZero ==
    (Returned({"div"}) /\ IsZeroMant(x) /\ ~IsZeroMant(y)) => CanonicalZero(result)

\* C4: div with an all-zero divisor mantissa returns the sentinel exps = 0,
\* sign = x.sign XOR y.sign, mantissa all zero, for every x including zero
\* (the zero-divisor test comes first), and it never enters the quotient loop.
C4_DivByZeroSentinel ==
    /\ (Returned({"div"}) /\ IsZeroMant(y)) =>
          /\ result.exps = 0
          /\ result.sign = (x.sign # y.sign)
          /\ IsZeroMant(result)
          /\ path = "div0"
    /\ (pc = "div_loop") => ~IsZeroMant(y)

\* A division 0 / 0 of operands of different signs has returned the sentinel.
C4_Witness ==
    /\ Returned({"div"})
    /\ IsZeroMant(x) /\ IsZeroMant(y) /\ x.sign # y.sign
    /\ result.exps = 0 /\ result.sign

\* C5: input() of a well-formed buffer whose mantissa field is entirely zero
\* returns canonical zero, for either sign character and with or without an
\* explicit exponent.
C5_ZeroBufferIsCanonicalZero ==
    \A b \in ZeroBuffers : (inx = input(b)) => CanonicalZero(inx)

\* C6: every value is normalized: the operands, which are input() values or
\* results of earlier operations, and every returned result have an all-zero
\* mantissa or a non-zero first mantissa digit.
C6_Normalized ==
    /\ Normalized(x)
    /\ Normalized(y)
    /\ (pc = "done") => Normalized(result)

\* A normalizing subtraction's result was stored as x and a division by a
\* larger mantissa then shifted its quotient left.
C6_Witness ==
    /\ pc = "done"
    /\ trail = <<"sub", "stx", "div">>
    /\ x # inx
    /\ path = "shl"
    /\ result.mant[1] # CH_0

\* C7: every add_sub result with an all-zero mantissa is canonical zero; so
\* are x - x for x of either sign and the sum or difference of two zeros of
\* any signs.
C7_AddSubZeroIsCanonical ==
    /\ (Returned({"add", "sub"}) /\ IsZeroMant(result)) => CanonicalZero(result)
    /\ (Returned({"sub"}) /\ x = y) => CanonicalZero(result)
    /\ (Returned({"add", "sub"}) /\ IsZeroMant(x) /\ IsZeroMant(y)) => CanonicalZero(result)

\* x - x has returned canonical zero for a negative non-zero x.
C7_Witness ==
    /\ Returned({"sub"})
    /\ x = y /\ x.sign /\ ~IsZeroMant(x)
    /\ path = "sub_zero"
    /\ CanonicalZero(result)

\* C8: additive identity. For non-zero x: x + 0 = x - 0 = x and 0 + x = x in
\* sign, mantissa and exps; 0 - x is x with the sign flipped; 0 + 0 and
\* 0 - 0 are canonical zero.
C8_AdditiveIdentity ==
    /\ (Returned({"add", "sub"}) /\ ~IsZeroMant(x) /\ IsZeroMant(y)) => result = x
    /\ (Returned({"add"}) /\ IsZeroMant(x) /\ ~IsZeroMant(y)) => result = y
    /\ (Returned({"sub"}) /\ IsZeroMant(x) /\ ~IsZeroMant(y)) =>
          result = [y EXCEPT !.sign = ~y.sign]
    /\ (Returned({"add", "sub"}) /\ IsZeroMant(x) /\ IsZeroMant(y)) =>
          (result.sign = FALSE /\ result.exps = EXP_BIAS /\ IsZeroMant(result))

\* 0 - y has returned -y for a positive non-zero y.
C8_Witness ==
    /\ Returned({"sub"})
    /\ IsZeroMant(x) /\ ~IsZeroMant(y) /\ ~y.sign
    /\ result.sign /\ result.mant = y.mant /\ result.exps = y.exps

\* C9: for non-zero typed x and y of equal exps, (x + y) - y is within one
\* unit in the last mantissa digit of x.
C9_AddThenSubIsClose ==
    (/\ pc = "done"
     /\ trail = <<"add", "stx", "sub">>
     /\ ~IsZeroMant(inx) /\ ~IsZeroMant(iny)
     /\ inx.exps = iny.exps) => Close(result, inx)

\* C10: for every non-zero x, div(x, x) returns sign false, the mantissa 1
\* followed by zeros, and exps = 128 (the biased exponent of 10^0).
C10_DivBySelf ==
    (Returned({"div"}) /\ x = y /\ ~IsZeroMant(x)) =>
        (result.sign = FALSE /\ result.mant = MantOne /\ result.exps = EXP_BIAS)

\* C10 as the specification states it: exps = 129.
C10_DivBySelf_Exps129 ==
    (Returned({"div"}) /\ x = y /\ ~IsZeroMant(x)) =>
        (result.sign = FALSE /\ result.mant = MantOne /\ result.exps = EXP_BIAS + 1)

\* An x of exps other than 128 was divided by itself.
C10_Witness ==
    /\ Returned({"div"})
    /\ x = y /\ ~IsZeroMant(x) /\ x.exps # EXP_BIAS
    /\ path = "quot"
    /\ result.exps = EXP_BIAS

\* C13: input() of a well-formed buffer with a non-zero mantissa field
\* returns the typed value truncated to MAX_MANT significant digits: the
\* sign of the sign character, the digits from the first non-zero one with
\* the '.' removed and zeros on the right, and exps = 128 + E + a.
C13_InputIsTypedValue ==
    (pc = "idle") => (inx = TypedValue(typed[1]) /\ inx.mant[1] # CH_0)

\* The 15-digit integer was parsed: its first 14 digits, exps = 142.
C13_Witness ==
    /\ pc = "idle"
    /\ typed[1] = Buffer(CH_SPACE, <<1, 2, 3, 4, 5, 6, 7, 8, 9, 0, 1, 2, 3, 4, 5>>)
    /\ inx.exps = 142
    /\ inx.mant[MAX_MANT] = CH_0 + 4

\* C19: for digits a, b in 0..9 bcd_mult(a, b) is the packed BCD product:
\* the high nibble is the tens digit and the low nibble the units digit of
\* a * b.  Stated of the digit pair the inner loop of mult has just
\* multiplied: the two nibbles it placed in scratch4.
C19_BcdMultIsPackedProduct ==
    (pc = "mult_inner" /\ i < MAX_MANT - 1) =>
        LET a == At(scratch1, i + 1) - CH_0
            b == At(scratch2, j) - CH_0
            product == bcd_mult(a, b)
        IN  /\ a \in 0..9 /\ b \in 0..9
            /\ And0F(product \div 16) = (a * b) \div 10
            /\ And0F(product) = (a * b) % 10
            /\ At(scratch4, i + 1) - CH_0 = (a * b) \div 10
            /\ At(scratch4, i + 2) - CH_0 = (a * b) % 10

\* 9 * 9 has just been multiplied: 8 and 1 are in scratch4.
C19_Witness ==
    /\ pc = "mult_inner" /\ i < MAX_MANT - 1
    /\ At(scratch1, i + 1) = CH_9 /\ At(scratch2, j) = CH_9
    /\ At(scratch4, i + 1) = CH_0 + 8 /\ At(scratch4, i + 2) = CH_0 + 1

\* The digit k (1 is the most significant) of a mantissa, as a number.
MantDigit(m, k) == IF k >= 1 /\ k <= MAX_MANT THEN m[k] - CH_0 ELSE 0

\* The mantissa m as an integer of MAX_MANT digits, in four limbs of four
\* digits; limb 0 is the least significant.
Limb(m, n) ==
    LET first == MAX_MANT - 3 - 4 * n
    IN  1000 * MantDigit(m, first) + 100 * MantDigit(m, first + 1)
          + 10 * MantDigit(m, first + 2) + MantDigit(m, first + 3)

\* The sum of the limb products a[n] * b[k - n] of weight 10000^k.
LimbColumn(a, b, k) ==
    LET term(n) == IF k - n >= 0 /\ k - n <= 3 THEN Limb(a, n) * Limb(b, k - n) ELSE 0
    IN  term(0) + term(1) + term(2) + term(3)

\* The limbs of the sequence of column sums s, carries propagated; s[1] is
\* the least significant column.
CarryLimbs(s) ==
    LET t1 == s[1]
        t2 == s[2] + t1 \div 10000
        t3 == s[3] + t2 \div 10000
        t4 == s[4] + t3 \div 10000
        t5 == s[5] + t4 \div 10000
        t6 == s[6] + t5 \div 10000
        t7 == s[7] + t6 \div 10000
    IN  <<t1 % 10000, t2 % 10000, t3 % 10000, t4 % 10000, t5 % 10000, t6 % 10000, t7>>

\* The 2 * MAX_MANT digits (most significant first) of seven limbs.
LimbDigits(p) ==
    [q \in 1..(2 * MAX_MANT) |->
        LET w == 2 * MAX_MANT - q
        IN  (p[(w \div 4) + 1] \div (10 ^ (w % 4))) % 10]

\* The exact product of two mantissas, as 2 * MAX_MANT digits.
ExactProduct(a, b) ==
    LimbDigits(CarryLimbs([k \in 1..7 |-> LimbColumn(a, b, k - 1)]))

\* The exact product of two non-zero normalized registers, truncated to
\* MAX_MANT digits.
MultExpected(u, v) ==
    LET p == ExactProduct(u.mant, v.mant)
        c == IF p[1] # 0 THEN 1 ELSE 0
    IN  [mant |-> [k \in 1..MAX_MANT |-> CH_0 + p[k + 1 - c]],
         sign |-> (u.sign # v.sign),
         exps |-> ToUint8(u.exps + v.exps - EXP_BIAS + c)]

\* C11: for non-zero normalized x and y, mult(x, y) is the exact product
\* truncated to MAX_MANT digits: the sign is the XOR of the signs, the
\* mantissa the leading MAX_MANT digits of the exact 2 * MAX_MANT digit
\* product, and exps = (x.exps + y.exps - 128 + c) mod 256 with c = 1 when
\* the product of the mantissas is 10 or more.
C11_MultIsTruncatedProduct ==
    (Returned({"mult"}) /\ ~IsZeroMant(x) /\ ~IsZeroMant(y) /\ Normalized(x) /\ Normalized(y))
        => result = MultExpected(x, y)

\* A product of two full-width mantissas was returned with c = 1 and with
\* non-zero digits dropped.
C11_Witness ==
    /\ Returned({"mult"})
    /\ x.mant[MAX_MANT] # CH_0 /\ y.mant[MAX_MANT] # CH_0
    /\ path = "inc"
    /\ ExactProduct(x.mant, y.mant)[2 * MAX_MANT] # 0
    /\ result = MultExpected(x, y)

\* The digit sequence a is below the digit sequence b of the same length.
DigitsLess(a, b) ==
    \E k \in 1..Len(a) :
        /\ a[k] < b[k]
        /\ \A m \in 1..(k - 1) : a[m] = b[m]

\* a * b + b for two mantissas, as 2 * MAX_MANT digits.
ExactProductPlus(a, b) ==
    LimbDigits(CarryLimbs([k \in 1..7 |->
        LimbColumn(a, b, k - 1) + (IF k <= 4 THEN Limb(b, k - 1) ELSE 0)]))

\* The dividend mantissa scaled so that the quotient has MAX_MANT integer
\* digits: followed by MAX_MANT zeros when it is below the divisor mantissa,
\* by MAX_MANT - 1 zeros otherwise; as 2 * MAX_MANT digits.
ScaledDividend(a, below) ==
    LET d == [k \in 1..MAX_MANT |-> a[k] - CH_0]
    IN  IF below THEN d \o Fill(MAX_MANT, 0)
        ELSE <<0>> \o d \o Fill(MAX_MANT - 1, 0)

\* q is the quotient u / v of two non-zero normalized registers truncated
\* to MAX_MANT significant digits.
IsTruncatedQuotient(q, u, v) ==
    LET below == DigitsLess(u.mant, v.mant)
        d == ScaledDividend(u.mant, below)
        lower == ExactProduct(q.mant, v.mant)
        upper == ExactProductPlus(q.mant, v.mant)
    IN  /\ q.sign = (u.sign # v.sign)
        /\ q.exps = ToUint8(u.exps - v.exps + EXP_BIAS - (IF below THEN 1 ELSE 0))
        /\ \A k \in 1..MAX_MANT : q.mant[k] \in CH_0..CH_9
        /\ q.mant[1] # CH_0
        /\ ~DigitsLess(d, lower)
        /\ DigitsLess(d, upper)

\* C12: for non-zero normalized x and y, div(x, y) is the exact quotient
\* truncated to MAX_MANT digits: the sign is the XOR of the signs, the
\* mantissa the first MAX_MANT significant digits of x.mant / y.mant, and
\* exps = (x.exps - y.exps + 128 - b) mod 256 with b = 1 when the mantissa
\* of x is below the mantissa of y.
C12_DivIsTruncatedQuotient ==
    (Returned({"div"}) /\ ~IsZeroMant(x) /\ ~IsZeroMant(y) /\ Normalized(x) /\ Normalized(y))
        => IsTruncatedQuotient(result, x, y)

\* 1 / 3 = 3.3333333333333e-01 was returned.
C12_Witness ==
    /\ Returned({"div"})
    /\ x.mant = MantOne /\ x.exps = EXP_BIAS
    /\ y.mant = <<CH_0 + 3>> \o Fill(MAX_MANT - 1, CH_0) /\ y.exps = EXP_BIAS
    /\ result.mant = Fill(MAX_MANT, CH_0 + 3)
    /\ result.exps = EXP_BIAS - 1
    /\ path = "shl"

\* C16: in div with non-zero normalized operands every quotient digit stays
\* in 0..9 (the while loop runs at most nine times per digit position, and
\* its digit diagnostic is never written), and the most significant digit
\* of the dividend is 0 whenever the dividend is shifted left.
C16_DivDigitsAndShift ==
    (pc = "div_loop") =>
        /\ \A k \in 1..MAX_SCRATCH : scratch3[k] \in CH_0..CH_9
        /\ "div: unexpected scratch mant digit" \notin diag
        /\ (i < MAX_SCRATCH /\ ~scratch_is_greater_or_equal(scratch1, scratch2))
              => At(scratch1, 0) = CH_0

\* A quotient digit has reached 9 and the dividend is about to be shifted.
C16_Witness ==
    /\ pc = "div_loop" /\ i < MAX_SCRATCH
    /\ ~IsZeroMant(x) /\ ~IsZeroMant(y)
    /\ At(scratch3, i) = CH_9
    /\ ~scratch_is_greater_or_equal(scratch1, scratch2)
    /\ At(scratch1, 0) = CH_0
    /\ At(scratch1, 1) # CH_0

\* The diagnostics of an unexpected carry or borrow.
CarryBorrowDiagnostics ==
    {"add_sub: unexpected borrow", "mult: unexpected carry", "div: unexpected borrow"}

\* C17: with non-zero normalized operands none of the carry and borrow
\* diagnostics is ever written: the final borrow of add_sub's subtraction
\* loop, the final carry of mult's accumulation and the final borrow of
\* div's subtraction.
C17_NoCarryBorrowDiagnostics ==
    (~IsZeroMant(x) /\ ~IsZeroMant(y) /\ Normalized(x) /\ Normalized(y))
        => diag \cap CarryBorrowDiagnostics = {}

\* An effective subtraction of a larger aligned mantissa has swapped its
\* operands and returned without a diagnostic.
C17_Witness ==
    /\ Returned({"add", "sub"})
    /\ path = "sub"
    /\ x.exps < y.exps /\ y.exps < x.exps + MAX_MANT
    /\ result.sign # x.sign
    /\ diag = {}

\* Every character of the sequence is a decimal digit.
IsDigits(s) == \A k \in 1..Len(s) : s[k] \in CH_0..CH_9

\* C20: every mantissa digit of every value returned by input, add_sub, mult
\* and div is '0'..'9', and the digit loops read digits only: the scratch
\* registers built from the operands, and the registers mult and div work
\* on, never hold the poison character where they are read.
C20_MantissasAreDigits ==
    /\ IsDigits(inx.mant) /\ IsDigits(iny.mant)
    /\ IsDigits(x.mant) /\ IsDigits(y.mant)
    /\ (pc = "done") => IsDigits(result.mant)
    /\ (pc = "idle") => (IsDigits(TAsrFromReg(x)) /\ IsDigits(TAsrFromReg(y)))
    /\ (pc \in {"mult_outer", "mult_inner", "div_loop"}) =>
          (IsDigits(scratch1) /\ IsDigits(scratch2) /\ IsDigits(scratch3))
    /\ (pc = "mult_inner" /\ i < MAX_MANT - 1) => IsDigits(scratch4)

\* A division of an operand that is itself a result has returned a
\* quotient of nines.
C20_Witness ==
    /\ Returned({"div"})
    /\ "stx" \in {trail[k] : k \in 1..Len(trail)}
    /\ path = "shl"
    /\ result.mant[1] = CH_9
    /\ IsDigits(result.mant)

\* The mantissa m written on a grid of w decimal positions, its first
\* digit at position off + 1.
OnGrid(m, off, w) ==
    [k \in 1..w |-> IF k > off /\ k <= off + MAX_MANT THEN m[k - off] - CH_0 ELSE 0]

\* Below position k the digits of a are less than the digits of b.
SuffixLess(a, b, k) ==
    \E m \in (k + 1)..Len(a) :
        /\ a[m] < b[m]
        /\ \A q \in (k + 1)..(m - 1) : a[q] = b[q]

\* The digits of a - b for digit sequences a >= b of the same length.
GridDiff(a, b) ==
    [k \in 1..Len(a) |->
        (a[k] - b[k] - (IF SuffixLess(a, b, k) THEN 1 ELSE 0) + 10) % 10]

\* The digit sequence b is the digit sequence a plus one.
DigitsSucc(a, b) ==
    \E k \in 1..Len(a) :
        /\ \A m \in 1..(k - 1) : b[m] = a[m]
        /\ b[k] = a[k] + 1
        /\ \A m \in (k + 1)..Len(a) : a[m] = 9 /\ b[m] = 0

\* The larger exponent of two registers, and the alignment distance.
LargerExps(u, v) == IF u.exps >= v.exps THEN u.exps ELSE v.exps
AlignDistance(u, v) == IF u.exps >= v.exps THEN u.exps - v.exps ELSE v.exps - u.exps

\* The magnitude of a register on the grid of the larger exponent of u, v.
Magnitude(r, u, v) ==
    OnGrid(r.mant, LargerExps(u, v) - r.exps, AlignDistance(u, v) + 2 * MAX_MANT)

\* The exact difference of the magnitudes of u and v, on that grid.
ExactDifference(u, v) ==
    LET a == Magnitude(u, u, v)
        b == Magnitude(v, u, v)
    IN  IF DigitsLess(a, b) THEN GridDiff(b, a) ELSE GridDiff(a, b)

\* r is within less than one unit in its last mantissa digit of the value
\* of sign s whose magnitude is the digit sequence e on the grid whose first
\* position has the exponent top.
WithinOneUnit(r, s, e, top) ==
    IF \A k \in 1..Len(e) : e[k] = 0
    THEN IsZeroMant(r)
    ELSE /\ r.sign = s
         /\ ~IsZeroMant(r)
         /\ r.exps <= top
         /\ LET off == top - r.exps
                n == off + MAX_MANT
                t == [k \in 1..n |-> IF k <= Len(e) THEN e[k] ELSE 0]
                g == OnGrid(r.mant, off, n)
                inexact == \E k \in (n + 1)..Len(e) : e[k] # 0
            IN  g = t \/ (inexact /\ DigitsSucc(t, g))

\* The operands are non-zero and normalized and the operation returned is
\* an effective subtraction (an effective addition when adding is TRUE).
EffectiveOp(adding) ==
    /\ Returned({"add", "sub"})
    /\ ~IsZeroMant(x) /\ ~IsZeroMant(y) /\ Normalized(x) /\ Normalized(y)
    /\ is_addition(x.sign, y.sign, LastOp = "sub") = adding

\* C14: for non-zero normalized x and y whose effective operation is a
\* subtraction, add_sub returns the exact value of x -/+ y truncated to
\* MAX_MANT significant digits: the sign of the exact result, and less than
\* one unit in the last mantissa digit of the result away from it, for every
\* exponent difference.
C14_SubtractionIsTruncatedDifference ==
    EffectiveOp(FALSE) =>
        WithinOneUnit(result,
                      x.sign # DigitsLess(Magnitude(x, x, y), Magnitude(y, x, y)),
                      ExactDifference(x, y), LargerExps(x, y))

\* r is exactly the value of sign s and of magnitude e (a digit sequence on
\* the grid whose first position has the exponent top) truncated to MAX_MANT
\* significant digits.
TruncatedTo(r, s, e, top) ==
    IF \A k \in 1..Len(e) : e[k] = 0
    THEN IsZeroMant(r)
    ELSE /\ r.sign = s
         /\ r.mant[1] # CH_0
         /\ r.exps <= top
         /\ LET off == top - r.exps
                n == off + MAX_MANT
            IN  OnGrid(r.mant, off, n) = [k \in 1..n |-> IF k <= Len(e) THEN e[k] ELSE 0]

\* Below position k the digits of a and b carry into position k.
SuffixCarry(a, b, k) ==
    \E m \in (k + 1)..Len(a) :
        /\ a[m] + b[m] >= 10
        /\ \A q \in (k + 1)..(m - 1) : a[q] + b[q] = 9

\* The digits of a + b for digit sequences of the same length whose first
\* digit is 0.
GridSum(a, b) ==
    [k \in 1..Len(a) |-> (a[k] + b[k] + (IF SuffixCarry(a, b, k) THEN 1 ELSE 0)) % 10]

\* The exact sum of the magnitudes of u and v on the grid whose first
\* position is one above the larger exponent.
ExactSum(u, v) ==
    GridSum(<<0>> \o Magnitude(u, u, v), <<0>> \o Magnitude(v, u, v))

\* The register r as add_sub aligns it against the other operand: of the
\* operand of the smaller exponent the last d mantissa digits, which a right
\* shift by d moves past position MAX_MANT, are dropped.
Aligned(r, other) ==
    IF r.exps >= other.exps THEN r
    ELSE [r EXCEPT !.mant = [k \in 1..MAX_MANT |->
                                IF k > MAX_MANT - (other.exps - r.exps) THEN CH_0
                                ELSE r.mant[k]]]

\* C18: alignment cut-off. For non-zero x and y with d = |x.exps - y.exps|
\* >= MAX_MANT add_sub returns the operand of the larger exponent, mantissa
\* and exps unchanged, with the sign x.sign (x returned) or y.sign XOR is_sub
\* (y returned).  For d < MAX_MANT the operand of the smaller exponent is
\* shifted right by exactly d digits and the exponent before normalization
\* is the larger one: the result is the sum or difference, at the larger
\* exponent, of the one operand and the other with its last d digits dropped.
C18_AlignmentCutOff ==
    (Returned({"add", "sub"}) /\ ~IsZeroMant(x) /\ ~IsZeroMant(y)
                              /\ Normalized(x) /\ Normalized(y)) =>
        LET is_sub == (LastOp = "sub")
            ax == Aligned(x, y)
            ay == Aligned(y, x)
        IN  /\ (x.exps >= y.exps + MAX_MANT) => (result = x /\ path = "return_x")
            /\ (y.exps >= x.exps + MAX_MANT) =>
                  (result = [y EXCEPT !.sign = (y.sign # is_sub)] /\ path = "return_y")
            /\ (AlignDistance(x, y) < MAX_MANT) =>
                  /\ path \in {"add", "add_carry", "sub", "sub_zero"}
                  /\ IF is_addition(x.sign, y.sign, is_sub)
                     THEN TruncatedTo(result, x.sign, ExactSum(ax, ay), LargerExps(x, y) + 1)
                     ELSE TruncatedTo(result,
                                      x.sign # DigitsLess(Magnitude(ax, x, y),
                                                          Magnitude(ay, x, y)),
                                      ExactDifference(ax, ay), LargerExps(x, y))

\* With x fourteen exponents below y, x - y has returned y with its sign
\* flipped.
C18_Witness ==
    /\ Returned({"sub"})
    /\ ~IsZeroMant(x) /\ ~IsZeroMant(y)
    /\ y.exps = x.exps + MAX_MANT
    /\ path = "return_y"
    /\ result.mant = y.mant /\ result.exps = y.exps /\ result.sign # y.sign

\* C15: for non-zero normalized x and y whose effective operation is an
\* addition, add_sub returns the exact sum of the two magnitudes truncated to
\* MAX_MANT significant digits with the sign of x: exps is the larger
\* operand exponent, and when the digit-serial addition leaves a final carry
\* the mantissa starts with the inserted 1 and exps is the larger exponent
\* plus exactly one.
C15_AdditionIsTruncatedSum ==
    EffectiveOp(TRUE) =>
        LET sum == ExactSum(x, y)
            carry == sum[1] # 0
        IN  /\ TruncatedTo(result, x.sign, sum, LargerExps(x, y) + 1)
            /\ result.exps = LargerExps(x, y) + (IF carry THEN 1 ELSE 0)
            /\ carry => result.mant[1] = CH_0 + 1

\* Additions of zero and non-zero operands of many exponents: the buffers
\* typed into the calculator that adds.
CommuteBuffers == AddSubBuffers \cup ZeroBuffers

InitCommute == InitWith(CommuteBuffers)

NextCommute == AddSub(FALSE)

SpecCommute == InitCommute /\ [][NextCommute]_vars

\* C21: addition is commutative on whole values: for all x and y (zero or
\* non-zero, any signs and exponents) add_sub(x, y, false) and
\* add_sub(y, x, false) return the same sign, exps and mantissa.
C21_AdditionCommutes ==
    Returned({"add"}) => result = add_sub(y, x, FALSE).reg

\* An addition of operands of equal exponent and different signs, the
\* first of the smaller magnitude, took the compare-and-swap path; so does
\* the addition with the operands exchanged, without the swap.
C21_Witness ==
    /\ Returned({"add"})
    /\ ~IsZeroMant(x) /\ ~IsZeroMant(y)
    /\ x.exps = y.exps /\ x.sign # y.sign
    /\ DigitsLess(x.mant, y.mant)
    /\ path = "sub"
    /\ result.sign = y.sign
    /\ add_sub(y, x, FALSE).path = "sub"

\* The steps that run a digit loop: add_sub as a whole, the inner loop body
\* of mult and the while body of div.
DigitStep == (\E is_sub \in BOOLEAN : AddSub(is_sub)) \/ MultInner \/ DivSubtract

\* A digit-loop step is possible: the guards of the three, each of which
\* changes the state when taken.
DigitStepPending ==
    \/ pc = "idle"
    \/ (pc = "mult_inner" /\ i >= 0)
    \/ (pc = "div_loop" /\ i < MAX_SCRATCH /\ scratch_is_greater_or_equal(scratch1, scratch2))

\* The other steps: loop heads, loop exits, set-up, normalization, return.
ControlStep ==
    MultBegin \/ MultOuter \/ MultInnerEnd \/ MultNormalize \/ DivBegin \/ DivShift
        \/ DivNormalize

\* One operation on typed operands, run as a sequential program runs: a
\* step that stays possible is taken.  That is weak fairness of the control
\* steps and of the digit-loop steps; for the latter it is written out,
\* with DigitStepPending as the enabling condition.
SpecLive ==
    /\ Init /\ [][Step]_vars
    /\ WF_vars(ControlStep)
    /\ ([]<>~DigitStepPending \/ []<><<DigitStep>>_vars)

\* C22: every operation terminates: an operation called on its operands
\* returns after finitely many steps.  add_sub's normalization loop runs on a
\* difference with a non-zero digit and takes at most MAX_MANT - 1 shifts;
\* div's while loop is entered only with a non-zero divisor, and each of its
\* subtractions strictly decreases the dividend.
C22_OperationsTerminate ==
    /\ (pc = "idle") ~> (pc = "done")
    /\ (pc \in {"mult_outer", "mult_inner", "div_loop"}) ~> (pc = "done")
    /\ [](pc = "div_loop" => ~scratch_is_0(scratch2))
    /\ [][DivSubtract => DigitsLess(scratch1', scratch1)]_vars
    /\ []((Returned({"add", "sub"}) /\ path = "sub") =>
             /\ ~IsZeroMant(result)
             /\ ToUint8(LargerExps(x, y) - result.exps) <= MAX_MANT - 1)

\* A subtraction has returned after the longest normalization, MAX_MANT - 1
\* shifts.
C22_Witness ==
    /\ Returned({"add", "sub"})
    /\ path = "sub"
    /\ result.exps = LargerExps(x, y) - (MAX_MANT - 1)
    /\ result.mant[1] # CH_0

=============================================================================
